---- MODULE Spec2Model ----
(***************************************************************************)
(* Model of the portfolio site renderer (javascript/main.js).              *)
(*                                                                         *)
(* PortfolioController: init() / refresh() are async functions.  Every     *)
(* await is a point where other calls on the same controller may run, so   *)
(* each call is a process whose position (pc) moves from one await to the  *)
(* next; the code between two awaits is one atomic action.  (Spec)         *)
(*                                                                         *)
(* ThemeController: the theme switcher of the same file.  (ThemeSpec)      *)
(*                                                                         *)
(* Builder (javascript/builder.js): the static DOM construction helpers,   *)
(* applied to a small page of pre-built elements.  (BuilderSpec)           *)
(*                                                                         *)
(* Resume preview: the preview button and container buildRsSection builds, *)
(* the deferred click listener and toggleResumePreview.  (PreviewSpec)     *)
(***************************************************************************)
EXTENDS Naturals, Integers, Sequences, FiniteSets, TLC

\* Number of init()/refresh() calls made on the controller in one behaviour.
MaxCalls == 2

Calls == 1..MaxCalls

\* ------------------------------------------------------------------------
\* Host page and configuration
\* ------------------------------------------------------------------------

\* this.config.selectors: the containers the renderer queries.
selectors == <<"linklist", "content", "extIcons", "langIcons", "toolIcons">>

Keys == {selectors[i] : i \in 1..Len(selectors)}

\* Host pages: which of the containers exist in the markup.
HostPages ==
  { Keys,
    Keys \ {"linklist"},
    Keys \ {"content"} }

\* JavaScript null (this.data before loading).
Null == [null |-> TRUE]

\* ------------------------------------------------------------------------
\* Content documents (the JSON payload the fetch returns)
\* ------------------------------------------------------------------------
\* A missing or empty field is "" (both are falsy in the code's tests).
\* body is the JSON kind of section.body: "text", "list" (an array) or
\* "none" (absent).

pgAbout  == [section |-> "about",  title |-> "About",  type |-> "pg", body |-> "text"]
pgAbout2 == [section |-> "about",  title |-> "More",   type |-> "pg", body |-> "text"]
lsWork   == [section |-> "work",   title |-> "Work",   type |-> "ls", body |-> "list"]
lsBroken == [section |-> "skills", title |-> "Skills", type |-> "ls", body |-> "text"]
rsResume == [section |-> "resume", title |-> "Resume", type |-> "rs", body |-> "none"]
noSlug   == [section |-> "",       title |-> "Work",   type |-> "ls", body |-> "list"]
noTitle  == [section |-> "work",   title |-> "",       type |-> "ls", body |-> "list"]
noType   == [section |-> "work",   title |-> "Work",   type |-> "",   body |-> "list"]
badType  == [section |-> "work",   title |-> "Work",   type |-> "xx", body |-> "list"]

\* data.icons: absent, or an object; languages is an array or not.
NoIcons  == [defined |-> FALSE, languagesIsArray |-> FALSE, languages |-> <<>>, tools |-> <<>>]
Icons    == [defined |-> TRUE,  languagesIsArray |-> TRUE,  languages |-> <<"python">>, tools |-> <<"git">>]
BadIcons == [defined |-> TRUE,  languagesIsArray |-> FALSE, languages |-> <<>>, tools |-> <<"git">>]

\* data.ext: absent, or a map (in insertion order) of key -> {icon, link};
\* isObject = FALSE is an entry that is null.
NoExt  == [defined |-> FALSE, entries |-> <<>>]
Ext    == [defined |-> TRUE, entries |->
            << [key |-> "github", isObject |-> TRUE, icon |-> "github-plain", link |-> "https://github.com"] >>]
BadExt == [defined |-> TRUE, entries |->
            << [key |-> "github", isObject |-> TRUE,  icon |-> "github-plain", link |-> "https://github.com"],
               [key |-> "mail",   isObject |-> FALSE, icon |-> "", link |-> ""] >>]

Doc(s, i, e) == [null |-> FALSE, sections |-> s, icons |-> i, ext |-> e]

\* The documents the server may answer with.
Docs ==
  { Doc(<<>>, NoIcons, NoExt),
    Doc(<<pgAbout, noSlug>>, NoIcons, NoExt),
    Doc(<<pgAbout, noTitle>>, NoIcons, NoExt),
    Doc(<<noType>>, NoIcons, NoExt),
    Doc(<<pgAbout, badType>>, Icons, Ext),
    Doc(<<pgAbout>>, NoIcons, NoExt),
    Doc(<<pgAbout, lsWork>>, Icons, Ext),
    Doc(<<pgAbout, lsBroken, rsResume>>, Icons, BadExt),
    Doc(<<pgAbout, pgAbout2>>, BadIcons, Ext) }

VARIABLES
  present,        \* host markup: the containers that exist in the page
  builderLoaded,  \* typeof Builder !== "undefined"
  dataUrl,        \* this.dataUrl
  data,           \* this.data: Null or the loaded document
  dom,            \* this.dom: the cache of queried containers
  cont,           \* the children of each container, in order
  pc,             \* per call: the await the call is suspended at
  kind,           \* per call: "init" or "refresh" ("none" before the call)
  err,            \* per call: the error the call fails with ("" if none)
  timer,          \* per call in progress: the state of loadPageData's 10 s timer
  overdue,        \* per call in progress: 10 s passed, the document not yet loaded
  rendered,       \* per call: the document buildPage rendered (Null if none)
  ran,            \* per call: the build steps buildPage ran, in order
  threw,          \* per call: the build steps that threw
  \* ThemeController
  saved,          \* localStorage item under storageKey ("none": no item)
  dataTheme,      \* data-theme attribute of the document element ("none": unset)
  prefersDark,    \* the (prefers-color-scheme: dark) media query matches
  hasMatchMedia,  \* window.matchMedia exists
  themeUp,        \* ThemeController.init() has run
  listening,      \* the media query has the change listener
  choice,         \* the user's last explicit act: "none", "toggle" or "reset"
  hasButton,      \* the page has the .theme-toggle-btn button
  label,          \* aria-label and title of the button ("none": unset)
  events,         \* the themechange events dispatched, in order
  heard,          \* the theme of the last change event the listener got since
                  \* the user's last explicit act ("none": no such event)
  storedAtInit,   \* what initializeTheme read from the store ("unread" before
                  \* init, "none": no valid item)
  \* Builder (javascript/builder.js)
  heap,           \* the DOM nodes that exist, by identity
  call,           \* the last Builder call and its arguments
  ret,            \* what that call returned, or that it threw
  calls,          \* the number of Builder calls made
  \* Resume preview (PortfolioController.toggleResumePreview)
  preview,        \* per resume section in the content region, in document
                  \* order: its preview container and preview button
  timers,         \* pending addEventListenerAfterBuild timers
  filled,         \* the content region holds a render pass
  passes,         \* the number of render passes made
  clicks,         \* the number of clicks on a preview button
  clicked         \* the button the last click was on (0: none)

portfolioVars == <<present, builderLoaded, dataUrl, data, dom, cont, pc, kind, err,
                   timer, overdue, rendered, ran, threw>>

themeVars == <<saved, dataTheme, prefersDark, hasMatchMedia, themeUp, listening, choice,
               hasButton, label, events, heard, storedAtInit>>

builderVars == <<heap, call, ret, calls>>

previewVars == <<preview, timers, filled, passes, clicks, clicked>>

vars == <<portfolioVars, themeVars, builderVars, previewVars>>

\* No resume section has been rendered and no preview button clicked.
PreviewIdle ==
  /\ preview = <<>> /\ timers = 0 /\ filled = FALSE
  /\ passes = 0 /\ clicks = 0 /\ clicked = 0

\* No Builder call has been made and no node built.
BuilderIdle == heap = <<>> /\ call = "none" /\ ret = "none" /\ calls = 0

\* The page before a ThemeController is at work on it.
ThemeIdle ==
  /\ saved = "none" /\ dataTheme = "none"
  /\ prefersDark = FALSE /\ hasMatchMedia = TRUE
  /\ themeUp = FALSE /\ listening = FALSE /\ choice = "none"
  /\ hasButton = TRUE /\ label = "none" /\ events = <<>> /\ heard = "none"
  /\ storedAtInit = "unread"

\* ------------------------------------------------------------------------
\* DOM cache
\* ------------------------------------------------------------------------

\* this.dom = {}
EmptyDom == [k \in Keys |-> "absent"]

\* this.dom[key] is truthy
Has(dm, k) == dm[k] = "element"

\* cacheDOMElements: query every selector; a missing element is cached as null.
cacheDOMElements == [k \in Keys |-> IF k \in present THEN "element" ELSE "null"]

\* validateDOM: the required keys whose cached element is missing.
required == <<"linklist", "content">>

validateDOM_firstOnly(dm) == SelectSeq(SubSeq(required, 1, 1), LAMBDA k : ~Has(dm, k))

validateDOM(dm) == SelectSeq(required, LAMBDA k : ~Has(dm, k))

\* ------------------------------------------------------------------------
\* validateDataStructure
\* ------------------------------------------------------------------------

requiredFields == <<"section", "title", "type">>

validTypes == {"pg", "ls", "rs"}

missingFields(section) == SelectSeq(requiredFields, LAMBDA field : section[field] = "")

validateSection_noTypeCheck(section) ==
  IF Len(missingFields(section)) > 0 THEN "missing required fields" ELSE ""

\* The check of one section inside the forEach; "" when it passes.
validateSection(section) ==
  IF Len(missingFields(section)) > 0 THEN "missing required fields"
  ELSE IF section.type \notin validTypes THEN "invalid type"
  ELSE ""

\* The message of the Error validateDataStructure throws on d; "" when it
\* returns normally.
validateDataStructure(d) ==
  IF d = Null THEN "No data loaded"
  ELSE IF Len(d.sections) = 0 THEN "No sections found in data"
  ELSE IF \E i \in 1..Len(d.sections) : validateSection(d.sections[i]) # ""
    THEN LET i == CHOOSE j \in 1..Len(d.sections) :
                    /\ validateSection(d.sections[j]) # ""
                    /\ \A k \in 1..(j-1) : validateSection(d.sections[k]) = ""
         IN validateSection(d.sections[i])
  ELSE ""

\* ------------------------------------------------------------------------
\* Builders.  Every node carries the call (pass) that built it.
\* ------------------------------------------------------------------------

\* The <li><a href="#<slug>-section">title</a></li> of one section.
navItem(section, p) ==
  [tag |-> "li", href |-> "#" \o section.section \o "-section",
   text |-> section.title, pass |-> p]

\* buildNavigation: one item per section, appended to the navigation list;
\* a section without slug or title throws inside the loop's try and is skipped.
buildNavigation(linklist, d, dm, p) ==
  IF ~Has(dm, "linklist") THEN linklist
  ELSE LET good == SelectSeq(d.sections, LAMBDA s : s.section # "" /\ s.title # "")
       IN linklist \o [i \in 1..Len(good) |-> navItem(good[i], p)]

\* The <div id="<slug>-section"> container the three section builders append.
sectionNode(section, p) ==
  [tag |-> "div", id |-> section.section \o "-section",
   title |-> section.title, type |-> section.type, pass |-> p]

\* A builder's outcome: the nodes it appended to #content, or a throw.
Built(nodes) == [ok |-> TRUE, nodes |-> nodes]
Throw == [ok |-> FALSE, nodes |-> <<>>]

buildPgSection(section, p) == Built(<<sectionNode(section, p)>>)

\* section.body.forEach throws a TypeError, before appendTo, when the body is
\* not an array.
buildLsSection(section, p) ==
  IF section.body # "list" THEN Throw ELSE Built(<<sectionNode(section, p)>>)

buildRsSection(section, p) == Built(<<sectionNode(section, p)>>)

\* The body of the try in buildSections' loop: dispatch on section.type.
buildSection(section, p) ==
  IF section.type = "" THEN Throw
  ELSE IF section.type = "pg" THEN buildPgSection(section, p)
  ELSE IF section.type = "ls" THEN buildLsSection(section, p)
  ELSE IF section.type = "rs" THEN buildRsSection(section, p)
  ELSE Throw

RECURSIVE sectionsFrom(_, _, _, _, _)
\* The forEach of buildSections from section i on.  isolate: the throw of one
\* section is caught inside the loop (the code) or ends the loop.
sectionsFrom(i, content, d, p, isolate) ==
  IF i > Len(d.sections) THEN content
  ELSE LET r == buildSection(d.sections[i], p)
       IN IF r.ok THEN sectionsFrom(i + 1, content \o r.nodes, d, p, isolate)
          ELSE IF isolate THEN sectionsFrom(i + 1, content, d, p, isolate)
          ELSE content

buildSections_noCatch(content, d, dm, p) ==
  IF ~Has(dm, "content") THEN content ELSE sectionsFrom(1, content, d, p, FALSE)

buildSections(content, d, dm, p) ==
  IF ~Has(dm, "content") THEN content ELSE sectionsFrom(1, content, d, p, TRUE)

extNode(entry, p) ==
  [tag |-> "a", href |-> entry.link, icon |-> "devicon-" \o entry.icon,
   label |-> "Visit " \o entry.key, pass |-> p]

RECURSIVE extFrom(_, _, _, _)
\* The forEach of buildExternalLinks: reading entry.link of a null entry
\* throws out of the loop; an entry without link or icon is skipped.
extFrom(i, extIcons, d, p) ==
  IF i > Len(d.ext.entries) THEN [nodes |-> extIcons, threw |-> FALSE]
  ELSE LET entry == d.ext.entries[i]
       IN IF ~entry.isObject THEN [nodes |-> extIcons, threw |-> TRUE]
          ELSE IF entry.link = "" \/ entry.icon = "" THEN extFrom(i + 1, extIcons, d, p)
          ELSE extFrom(i + 1, Append(extIcons, extNode(entry, p)), d, p)

buildExternalLinks(extIcons, d, dm, p) ==
  IF ~d.ext.defined \/ ~Has(dm, "extIcons") THEN [nodes |-> extIcons, threw |-> FALSE]
  ELSE extFrom(1, extIcons, d, p)

iconNode(icon, p) ==
  [tag |-> "span", icon |-> "devicon-" \o icon \o "-plain", title |-> icon, pass |-> p]

buildIconSet(icons, container, p) ==
  container \o [i \in 1..Len(icons) |-> iconNode(icons[i], p)]

\* buildDevIcons: languages, then tools; icons.forEach throws when languages
\* is not an array, and the tools are not reached.
buildDevIcons(lang, tool, d, dm, p) ==
  IF ~d.icons.defined THEN [lang |-> lang, tool |-> tool, threw |-> FALSE]
  ELSE IF ~d.icons.languagesIsArray /\ Has(dm, "langIcons")
    THEN [lang |-> lang, tool |-> tool, threw |-> TRUE]
  ELSE [lang  |-> IF Has(dm, "langIcons") THEN buildIconSet(d.icons.languages, lang, p) ELSE lang,
        tool  |-> IF Has(dm, "toolIcons") THEN buildIconSet(d.icons.tools, tool, p) ELSE tool,
        threw |-> FALSE]

\* ------------------------------------------------------------------------
\* buildPage
\* ------------------------------------------------------------------------

buildSteps == <<"navigation", "sections", "cache refresh", "external links", "dev icons">>

\* One step of buildPage on the page c and the cache dm.
runStep(name, c, dm, d, p) ==
  IF name = "navigation"
    THEN [cont |-> [c EXCEPT !["linklist"] = buildNavigation(c["linklist"], d, dm, p)],
          dom |-> dm, threw |-> FALSE]
  ELSE IF name = "sections"
    THEN [cont |-> [c EXCEPT !["content"] = buildSections(c["content"], d, dm, p)],
          dom |-> dm, threw |-> FALSE]
  ELSE IF name = "cache refresh"
    THEN [cont |-> c, dom |-> cacheDOMElements, threw |-> FALSE]
  ELSE IF name = "external links"
    THEN LET r == buildExternalLinks(c["extIcons"], d, dm, p)
         IN [cont |-> [c EXCEPT !["extIcons"] = r.nodes], dom |-> dm, threw |-> r.threw]
  ELSE LET r == buildDevIcons(c["langIcons"], c["toolIcons"], d, dm, p)
       IN [cont |-> [c EXCEPT !["langIcons"] = r.lang, !["toolIcons"] = r.tool],
           dom |-> dm, threw |-> r.threw]

RECURSIVE stepsFrom(_, _, _, _, _)
\* The for loop of buildPage from step i on.  st is the outcome so far.
\* isolate: a step's throw is caught and logged (the code), or escapes.
stepsFrom(i, st, d, p, isolate) ==
  IF i > Len(buildSteps) THEN st
  ELSE LET r == runStep(buildSteps[i], st.cont, st.dom, d, p)
           next == [ok    |-> TRUE,
                    cont  |-> r.cont,
                    dom   |-> r.dom,
                    ran   |-> Append(st.ran, buildSteps[i]),
                    threw |-> IF r.threw THEN st.threw \cup {buildSteps[i]} ELSE st.threw]
       IN IF r.threw /\ ~isolate THEN [next EXCEPT !.ok = FALSE]
          ELSE stepsFrom(i + 1, next, d, p, isolate)

BuildStart(c, dm) == [ok |-> TRUE, cont |-> c, dom |-> dm, ran |-> <<>>, threw |-> {}]

buildPage_rethrow(c, dm, d, p) ==
  IF d = Null THEN [BuildStart(c, dm) EXCEPT !.ok = FALSE]
  ELSE stepsFrom(1, BuildStart(c, dm), d, p, FALSE)

\* buildPage: ok = FALSE when it throws (no data), else the page, the cache
\* and the record of the steps after the five steps.
buildPage(c, dm, d, p) ==
  IF d = Null THEN [BuildStart(c, dm) EXCEPT !.ok = FALSE]
  ELSE stepsFrom(1, BuildStart(c, dm), d, p, TRUE)

\* clearContent: empties #content and the navigation list, when cached.
clearContent(c, dm) ==
  [k \in Keys |-> IF k \in {"content", "linklist"} /\ Has(dm, k) THEN <<>> ELSE c[k]]

\* ------------------------------------------------------------------------
\* Initial state: the controller after construction, on some host page
\* ------------------------------------------------------------------------

\* A PortfolioController that has not been used.
PortfolioIdle(pages, loaded, urls) ==
  /\ present \in pages
  /\ builderLoaded \in loaded
  /\ dataUrl \in urls
  /\ data = Null
  /\ dom = EmptyDom
  /\ cont = [k \in Keys |-> <<>>]
  /\ pc = [p \in Calls |-> "idle"]
  /\ kind = [p \in Calls |-> "none"]
  /\ err = [p \in Calls |-> ""]
  /\ timer = [p \in Calls |-> "unset"]
  /\ overdue = [p \in Calls |-> FALSE]
  /\ rendered = [p \in Calls |-> Null]
  /\ ran = [p \in Calls |-> <<>>]
  /\ threw = [p \in Calls |-> {}]

Init ==
  /\ PortfolioIdle(HostPages, BOOLEAN, {"./data/data.json", ""})
  /\ ThemeIdle
  /\ BuilderIdle
  /\ PreviewIdle

\* What no PortfolioController method writes: the host page and its
\* configuration, the ThemeController and the Builder's nodes.
host == <<present, builderLoaded, dataUrl, themeVars, builderVars, previewVars>>
record == <<rendered, ran, threw>>

\* p is the next call to be made.
NextCall(p) == pc[p] = "idle" /\ \A q \in 1..(p-1) : pc[q] # "idle"

\* ------------------------------------------------------------------------
\* init(): from the call to its first await
\* ------------------------------------------------------------------------
initStart_noGuard(p, d0, dm0) ==
  /\ pc' = [pc EXCEPT ![p] = "fetch"]
  /\ timer' = [timer EXCEPT ![p] = "armed"]
  /\ data' = d0 /\ dom' = dm0
  /\ UNCHANGED err

\* d0, dm0: this.data and this.dom when init() is entered.
initStart(p, d0, dm0) ==
  IF d0 # Null
    THEN \* already initialized: return
         /\ pc' = [pc EXCEPT ![p] = "returned"]
         /\ data' = d0 /\ dom' = dm0
         /\ UNCHANGED <<err, timer>>
  ELSE IF ~builderLoaded
    THEN \* throws inside the try: the catch resets the state and rethrows
         /\ pc' = [pc EXCEPT ![p] = "failed"]
         /\ err' = [err EXCEPT ![p] = "BuilderJS is not available"]
         /\ data' = Null /\ dom' = EmptyDom
         /\ UNCHANGED timer
  ELSE IF dataUrl = ""
    THEN \* loadPageData throws before the fetch: its promise is rejected
         /\ pc' = [pc EXCEPT ![p] = "rejected"]
         /\ err' = [err EXCEPT ![p] = "No data URL configured"]
         /\ data' = d0 /\ dom' = dm0
         /\ UNCHANGED timer
  ELSE \* loadPageData arms the timer and awaits fetch()
       /\ pc' = [pc EXCEPT ![p] = "fetch"]
       /\ timer' = [timer EXCEPT ![p] = "armed"]
       /\ data' = d0 /\ dom' = dm0
       /\ UNCHANGED err

\* A call of init().
init(p) ==
  /\ NextCall(p)
  /\ kind' = [kind EXCEPT ![p] = "init"]
  /\ initStart(p, data, dom)
  /\ UNCHANGED <<host, cont, overdue, record>>

\* A call of refresh(): clearContent, reset of data and dom, then init().
refresh(p) ==
  /\ NextCall(p)
  /\ kind' = [kind EXCEPT ![p] = "refresh"]
  /\ cont' = clearContent(cont, dom)
  /\ initStart(p, Null, EmptyDom)
  /\ UNCHANGED <<host, overdue, record>>

\* ------------------------------------------------------------------------
\* loadPageData
\* ------------------------------------------------------------------------

\* fetch() resolves with a response: the timer is cleared; a response that
\* is not ok throws.
fetchResponse(p, ok) ==
  /\ pc[p] = "fetch"
  /\ timer' = [timer EXCEPT ![p] = "cleared"]
  /\ IF ok THEN /\ pc' = [pc EXCEPT ![p] = "json"]
                /\ UNCHANGED err
           ELSE /\ pc' = [pc EXCEPT ![p] = "rejected"]
                /\ err' = [err EXCEPT ![p] = "HTTP error"]
  /\ UNCHANGED <<host, data, dom, cont, kind, overdue, record>>

fetchReject_swallowed(p) ==
  /\ pc[p] = "fetch"
  /\ pc' = [pc EXCEPT ![p] = "loaded"]
  /\ err' = [err EXCEPT ![p] = "network error"]
  /\ UNCHANGED <<host, data, dom, cont, kind, timer, overdue, record>>

\* fetch() rejects (network failure); the timer is left armed.
fetchReject(p) ==
  /\ pc[p] = "fetch"
  /\ pc' = [pc EXCEPT ![p] = "rejected"]
  /\ err' = [err EXCEPT ![p] = "network error"]
  /\ UNCHANGED <<host, data, dom, cont, kind, timer, overdue, record>>

\* Ten seconds pass since loadPageData started, the document not yet loaded.
\* An armed timer fires controller.abort(): the pending fetch rejects with an
\* AbortError, rethrown as a timeout error.  A cleared timer does nothing.
timeout(p) ==
  /\ pc[p] \in {"fetch", "json"}
  /\ ~overdue[p]
  /\ overdue' = [overdue EXCEPT ![p] = TRUE]
  /\ IF timer[p] = "armed"
       THEN /\ timer' = [timer EXCEPT ![p] = "fired"]
            /\ pc' = [pc EXCEPT ![p] = "rejected"]
            /\ err' = [err EXCEPT ![p] = "Request timed out while loading data"]
       ELSE UNCHANGED <<timer, pc, err>>
  /\ UNCHANGED <<host, data, dom, cont, kind, record>>

\* response.json() resolves with document d: this.data is assigned, then
\* validated.
jsonResolve(p, d) ==
  /\ pc[p] = "json"
  /\ data' = d
  /\ IF validateDataStructure(d) = ""
       THEN /\ pc' = [pc EXCEPT ![p] = "loaded"]
            /\ UNCHANGED err
       ELSE /\ pc' = [pc EXCEPT ![p] = "rejected"]
            /\ err' = [err EXCEPT ![p] = validateDataStructure(d)]
  /\ UNCHANGED <<host, dom, cont, kind, timer, overdue, record>>

\* response.json() rejects (the body is not JSON, or the connection drops).
jsonReject(p) ==
  /\ pc[p] = "json"
  /\ pc' = [pc EXCEPT ![p] = "rejected"]
  /\ err' = [err EXCEPT ![p] = "invalid JSON"]
  /\ UNCHANGED <<host, data, dom, cont, kind, timer, overdue, record>>

\* ------------------------------------------------------------------------
\* init(): after its awaits
\* ------------------------------------------------------------------------

\* The call has settled: the locals of its loadPageData are gone (a timer left
\* armed fires into a settled fetch, without effect).
Settled(p) ==
  /\ timer' = [timer EXCEPT ![p] = "unset"]
  /\ overdue' = [overdue EXCEPT ![p] = FALSE]

\* init() resumes after loadPageData: cacheDOMElements, validateDOM and
\* buildPage.  buildPage has no await of its own: it runs to its end in this
\* task, and what init() does after "await this.buildPage()" is a log line,
\* so the call counts as done here.
afterLoad(p) ==
  /\ pc[p] = "loaded"
  /\ LET dm == cacheDOMElements
     IN IF Len(validateDOM(dm)) > 0
          THEN \* validateDOM throws: the catch resets the state
               /\ pc' = [pc EXCEPT ![p] = "failed"]
               /\ err' = [err EXCEPT ![p] = "Required DOM elements missing"]
               /\ data' = Null /\ dom' = EmptyDom
               /\ Settled(p)
               /\ UNCHANGED <<cont, record>>
          ELSE LET r == buildPage(cont, dm, data, p)
               IN IF r.ok
                    THEN /\ pc' = [pc EXCEPT ![p] = "done"]
                         /\ cont' = r.cont /\ dom' = r.dom
                         /\ rendered' = [rendered EXCEPT ![p] = data]
                         /\ ran' = [ran EXCEPT ![p] = r.ran]
                         /\ threw' = [threw EXCEPT ![p] = r.threw]
                         /\ Settled(p)
                         /\ UNCHANGED <<data, err>>
                    ELSE /\ pc' = [pc EXCEPT ![p] = "rejected"]
                         /\ err' = [err EXCEPT ![p] = "No data available for building page"]
                         /\ cont' = r.cont /\ dom' = r.dom
                         /\ ran' = [ran EXCEPT ![p] = r.ran]
                         /\ threw' = [threw EXCEPT ![p] = r.threw]
                         /\ UNCHANGED <<data, rendered, timer, overdue>>
  /\ UNCHANGED <<host, kind>>

initCatch_keepState(p) ==
  /\ pc[p] = "rejected"
  /\ pc' = [pc EXCEPT ![p] = "failed"]
  /\ Settled(p)
  /\ UNCHANGED <<host, data, dom, cont, kind, err, record>>

\* The catch of init() after a rejected await: reset and rethrow.
initCatch(p) ==
  /\ pc[p] = "rejected"
  /\ pc' = [pc EXCEPT ![p] = "failed"]
  /\ data' = Null
  /\ dom' = EmptyDom
  /\ Settled(p)
  /\ UNCHANGED <<host, cont, kind, err, record>>

Next ==
  \E p \in Calls :
    \/ init(p)
    \/ refresh(p)
    \/ \E ok \in BOOLEAN : fetchResponse(p, ok)
    \/ fetchReject(p)
    \/ timeout(p)
    \/ \E d \in Docs : jsonResolve(p, d)
    \/ jsonReject(p)
    \/ afterLoad(p)
    \/ initCatch(p)

Spec == Init /\ [][Next]_vars

\* ------------------------------------------------------------------------
\* ThemeController
\*
\* state: the pair of the data-theme attribute and the stored item.  The
\* store is taken to be available: the catch branches around localStorage
\* only log.
\* ------------------------------------------------------------------------

\* this.themes
themes == {"light", "dark"}

\* What the store may hold when the page loads: nothing, a theme, or a value
\* that is not a theme.
StoredValues == {"none", "light", "dark", "blue"}

ThemeState == [dataTheme |-> dataTheme, saved |-> saved, label |-> label, events |-> events]

\* getSavedTheme: the stored item when it is one of this.themes, else null.
getSavedTheme(st) == IF st.saved \in themes THEN st.saved ELSE "none"

\* getSystemTheme: dark when matchMedia exists and the query matches.
getSystemTheme == IF hasMatchMedia /\ prefersDark THEN "dark" ELSE "light"

\* getCurrentTheme: the data-theme attribute, or the system theme without it.
getCurrentTheme(st) == IF st.dataTheme # "none" THEN st.dataTheme ELSE getSystemTheme

saveTheme_skip(theme, st) == st

\* saveTheme: localStorage.setItem(storageKey, theme).
saveTheme(theme, st) == [st EXCEPT !.saved = theme]

\* updateThemeToggleButton: the label names the theme a click switches to.
updateThemeToggleButton(theme, st) ==
  IF ~hasButton THEN st
  ELSE [st EXCEPT !.label = IF theme = "dark" THEN "Switch to light mode"
                                              ELSE "Switch to dark mode"]

\* setTheme: an invalid theme is refused; else the attribute is set, the
\* theme saved, the button updated and a themechange event dispatched, whose
\* detail.previous is read after the attribute was set.
setTheme(theme, st) ==
  IF theme \notin themes THEN st
  ELSE LET set     == [st EXCEPT !.dataTheme = theme]
           updated == updateThemeToggleButton(theme, saveTheme(theme, set))
       IN [updated EXCEPT !.events =
             Append(@, [theme |-> theme, previous |-> getCurrentTheme(updated)])]

initialTheme_systemFirst(savedTheme, systemTheme) == systemTheme

\* initializeTheme: const theme = savedTheme || systemTheme.
initialTheme(savedTheme, systemTheme) ==
  IF savedTheme # "none" THEN savedTheme ELSE systemTheme

initializeTheme(st) == setTheme(initialTheme(getSavedTheme(st), getSystemTheme), st)

otherTheme_same(currentTheme) == currentTheme

\* toggleTheme: newTheme = currentTheme === DARK ? LIGHT : DARK.
otherTheme(currentTheme) == IF currentTheme = "dark" THEN "light" ELSE "dark"

handleSystemThemeChange_noGuard(matches, st) ==
  setTheme(IF matches THEN "dark" ELSE "light", st)

\* handleSystemThemeChange: ignored when a theme is saved.
handleSystemThemeChange(matches, st) ==
  IF getSavedTheme(st) # "none" THEN st
  ELSE setTheme(IF matches THEN "dark" ELSE "light", st)

Apply(st) ==
  /\ dataTheme' = st.dataTheme /\ saved' = st.saved
  /\ label' = st.label /\ events' = st.events

\* Number of themechange events followed in one behaviour.
MaxEvents == 3

CanDispatch == Len(events) < MaxEvents

\* ThemeController.init(): initializeTheme, then setupSystemThemeListener.
themeInit ==
  /\ ~themeUp /\ CanDispatch
  /\ themeUp' = TRUE
  /\ Apply(initializeTheme(ThemeState))
  /\ listening' = hasMatchMedia
  /\ storedAtInit' = getSavedTheme(ThemeState)
  /\ UNCHANGED <<prefersDark, hasMatchMedia, choice, hasButton, heard, portfolioVars,
                 builderVars, previewVars>>

\* toggleTheme(): the toggle button, or a call of the bound method.
toggleTheme ==
  /\ CanDispatch
  /\ Apply(setTheme(otherTheme(getCurrentTheme(ThemeState)), ThemeState))
  /\ choice' = "toggle" /\ heard' = "none"
  /\ UNCHANGED <<prefersDark, hasMatchMedia, themeUp, listening, hasButton, storedAtInit,
                 portfolioVars, builderVars, previewVars>>

\* The system preference changes; the media query fires its change event at
\* the listener, if there is one.
systemThemeChange ==
  /\ hasMatchMedia /\ CanDispatch
  /\ prefersDark' = ~prefersDark
  /\ IF listening
       THEN /\ Apply(handleSystemThemeChange(prefersDark', ThemeState))
            /\ heard' = IF prefersDark' THEN "dark" ELSE "light"
       ELSE UNCHANGED <<dataTheme, saved, label, events, heard>>
  /\ UNCHANGED <<hasMatchMedia, themeUp, listening, choice, hasButton, storedAtInit,
                 portfolioVars, builderVars, previewVars>>

\* resetToSystemTheme(): removeItem, then setTheme(getSystemTheme()).
resetToSystemTheme ==
  /\ CanDispatch
  /\ Apply(setTheme(getSystemTheme, [ThemeState EXCEPT !.saved = "none"]))
  /\ choice' = "reset" /\ heard' = "none"
  /\ UNCHANGED <<prefersDark, hasMatchMedia, themeUp, listening, hasButton, storedAtInit,
                 portfolioVars, builderVars, previewVars>>

\* The page when the ThemeController is constructed.
ThemeInit ==
  /\ PortfolioIdle({Keys}, {TRUE}, {"./data/data.json"})
  /\ saved \in StoredValues
  /\ dataTheme = "none"
  /\ prefersDark \in BOOLEAN
  /\ hasMatchMedia \in BOOLEAN
  /\ themeUp = FALSE /\ listening = FALSE /\ choice = "none"
  /\ hasButton \in BOOLEAN /\ label = "none" /\ events = <<>> /\ heard = "none"
  /\ storedAtInit = "unread"
  /\ BuilderIdle
  /\ PreviewIdle

ThemeNext ==
  \/ themeInit
  \/ toggleTheme
  \/ systemThemeChange
  \/ resetToSystemTheme

ThemeSpec == ThemeInit /\ [][ThemeNext]_vars

\* ------------------------------------------------------------------------
\* Builder (javascript/builder.js): the DOM it works on
\*
\* heap maps a node identity to the node: its tag ("" while the identity is
\* not in use), attributes (name/value pairs), class list, text set through
\* innerHTML, child nodes in order and parent (0: detached).
\* ------------------------------------------------------------------------

\* Number of node identities.
MaxNodes == 7

NodeIds == 1..MaxNodes

Unused == [tag |-> "", attrs |-> {}, classes |-> {}, inner |-> "", kids |-> <<>>, parent |-> 0]

\* document.createElement(tag)
createElement(tag) == [Unused EXCEPT !.tag = tag]

\* document.createDocumentFragment()
createDocumentFragment == [Unused EXCEPT !.tag = "#document-fragment"]

FreeIds(h) == {n \in NodeIds : h[n].tag = ""}

\* The identity a new node gets.
alloc(h) == CHOOSE n \in FreeIds(h) : \A m \in FreeIds(h) : n <= m

RECURSIVE InclusiveAncestors(_, _)
InclusiveAncestors(h, n) ==
  IF n = 0 THEN {} ELSE {n} \cup InclusiveAncestors(h, h[n].parent)

\* The node leaves its parent, if it has one.
detach(h, c) ==
  IF h[c].parent = 0 THEN h
  ELSE [h EXCEPT ![h[c].parent].kids = SelectSeq(@, LAMBDA k : k # c),
                 ![c].parent = 0]

\* parent.appendChild(c): a node is moved from where it was; appending an
\* inclusive ancestor of the parent throws HierarchyRequestError.
appendChild(h, p, c) ==
  IF c \in InclusiveAncestors(h, p)
    THEN [h |-> h, threw |-> TRUE]
    ELSE LET h1 == detach(h, c)
         IN [h |-> [h1 EXCEPT ![p].kids = Append(@, c), ![c].parent = p],
             threw |-> FALSE]

\* element.innerHTML = v: the children are removed, the content is v.
setInnerHTML(h, e, v) ==
  [n \in NodeIds |->
     IF n = e THEN [h[e] EXCEPT !.kids = <<>>, !.inner = v]
     ELSE IF h[n].parent = e THEN [h[n] EXCEPT !.parent = 0]
     ELSE h[n]]

\* element.setAttribute(name, value): the last write of a name wins.  (The
\* names drawn are lower case, as the DOM stores them.)
setAttribute(h, e, name, value) ==
  [h EXCEPT ![e].attrs = {a \in @ : a[1] # name} \cup {<<name, value>>}]

RECURSIVE cloneNode(_, _)
RECURSIVE cloneChildren(_, _, _, _)
\* n.cloneNode(true): a detached copy of n and of its subtree, made of new
\* nodes.
cloneNode(h, n) ==
  LET id == alloc(h)
      h1 == [h EXCEPT ![id] = [h[n] EXCEPT !.kids = <<>>, !.parent = 0]]
  IN cloneChildren(h1, id, h[n].kids, 1)

cloneChildren(h, id, ks, i) ==
  IF i > Len(ks) THEN [h |-> h, node |-> id]
  ELSE LET r == cloneNode(h, ks[i])
       IN cloneChildren([r.h EXCEPT ![id].kids = Append(@, r.node),
                                    ![r.node].parent = id],
                        id, ks, i + 1)

RECURSIVE Subtree(_, _)
\* n and its descendants.
Subtree(h, n) ==
  {n} \cup UNION {Subtree(h, h[n].kids[i]) : i \in 1..Len(h[n].kids)}

\* ------------------------------------------------------------------------
\* Builder.build
\* ------------------------------------------------------------------------

\* Option of an options map: key, and its value (a string, or for children
\* the array of nodes).
Opt(key, value) == [key |-> key, value |-> value, nodes |-> <<>>]
Children(nodes) == [key |-> "children", value |-> "", nodes |-> nodes]

\* Properties every object literal inherits from Object.prototype (two of
\* them): ops[key] finds them as it finds ops.inner.
ObjectPrototype == {"toString", "constructor"}

\* if (ops[key])
opsHas(key) == key \in {"inner", "children"} \cup ObjectPrototype

RECURSIVE appendChildren(_, _, _, _)
\* ops.children: v.forEach(child => element.appendChild(child))
appendChildren(h, e, v, i) ==
  IF i > Len(v) THEN [h |-> h, threw |-> FALSE]
  ELSE LET r == appendChild(h, e, v[i])
       IN IF r.threw THEN r ELSE appendChildren(r.h, e, v, i + 1)

applyOp_dropChildren(h, e, o) ==
  IF o.key = "inner" THEN [h |-> setInnerHTML(h, e, o.value), threw |-> FALSE]
  ELSE [h |-> h, threw |-> FALSE]

\* ops[key](options[key]): inner, children, or an inherited function, which
\* returns without touching the element.
applyOp(h, e, o) ==
  IF o.key = "inner" THEN [h |-> setInnerHTML(h, e, o.value), threw |-> FALSE]
  ELSE IF o.key = "children" THEN appendChildren(h, e, o.nodes, 1)
  ELSE [h |-> h, threw |-> FALSE]

RECURSIVE applyOptions(_, _, _, _)
\* for (let key in options): in insertion order.
applyOptions(h, e, options, i) ==
  IF i > Len(options) THEN [h |-> h, threw |-> FALSE]
  ELSE LET o == options[i]
           r == IF opsHas(o.key) THEN applyOp(h, e, o)
                ELSE [h |-> setAttribute(h, e, o.key, o.value), threw |-> FALSE]
       IN IF r.threw THEN r ELSE applyOptions(r.h, e, options, i + 1)

\* Builder.build(tag, options)
build(h, tag, options) ==
  LET element == alloc(h)
      r == applyOptions([h EXCEPT ![element] = createElement(tag)], element, options, 1)
  IN [h |-> r.h, node |-> element, threw |-> r.threw]

\* ------------------------------------------------------------------------
\* Builder.multibuild, pack, chain
\* ------------------------------------------------------------------------

RECURSIVE appendClones(_, _, _, _, _)
\* for (i = 0; i < num; i++) frag.appendChild(element.cloneNode(true))
appendClones(h, frag, element, i, num) ==
  IF i >= num THEN h
  ELSE LET c == cloneNode(h, element)
       IN appendClones(appendChild(c.h, frag, c.node).h, frag, element, i + 1, num)

RECURSIVE appendSame(_, _, _, _, _)
appendSame(h, frag, element, i, num) ==
  IF i >= num THEN h
  ELSE appendSame(appendChild(h, frag, element).h, frag, element, i + 1, num)

multibuild_noClone(h, tag, num, options) ==
  LET frag == alloc(h)
      b == build([h EXCEPT ![frag] = createDocumentFragment], tag, options)
  IN IF b.threw THEN [h |-> h, node |-> 0, threw |-> TRUE]
     ELSE [h |-> appendSame(b.h, frag, b.node, 0, num), node |-> frag, threw |-> FALSE]

\* Builder.multibuild(tag, num, options): the fragment, the element built
\* once, and num deep clones of it in the fragment.
multibuild(h, tag, num, options) ==
  LET frag == alloc(h)
      b == build([h EXCEPT ![frag] = createDocumentFragment], tag, options)
  IN IF b.threw THEN [h |-> h, node |-> 0, threw |-> TRUE]
     ELSE [h |-> appendClones(b.h, frag, b.node, 0, num), node |-> frag, threw |-> FALSE]

\* The first argument of pack: an array of nodes, a node, or undefined
\* (pack() without arguments).
ArrayArg(items) == [kind |-> "array", items |-> items, node |-> 0]
NodeArg(n) == [kind |-> "node", items |-> <<>>, node |-> n]
Undefined == [kind |-> "undefined", items |-> <<>>, node |-> 0]

\* typeof elementArr === "object" && elementArr.length: an array that is not
\* empty (an element has no length).
hasLength(elementArr) == elementArr.kind = "array" /\ Len(elementArr.items) > 0

\* The arguments (elementArr, ...elements) of the two ways to call pack.
PackArray(xs) == [elementArr |-> ArrayArg(xs), elements |-> <<>>]
PackVariadic(xs) ==
  IF Len(xs) = 0 THEN [elementArr |-> Undefined, elements |-> <<>>]
  ELSE [elementArr |-> NodeArg(xs[1]), elements |-> Tail(xs)]

\* Builder.pack(elementArr, ...elements).  In the else branch
\* pack.appendChild(elementArr) throws a TypeError unless elementArr is a node.
pack(h, elementArr, elements) ==
  LET frag == alloc(h)
      h0 == [h EXCEPT ![frag] = createDocumentFragment]
      r == IF hasLength(elementArr)
             THEN appendChildren(h0, frag, elementArr.items, 1)
           ELSE IF elementArr.kind # "node"
             THEN [h |-> h0, threw |-> TRUE]
           ELSE appendChildren(h0, frag, <<elementArr.node>> \o elements, 1)
  IN IF r.threw THEN [h |-> h, node |-> 0, threw |-> TRUE]
     ELSE [h |-> r.h, node |-> frag, threw |-> FALSE]

RECURSIVE chainFrom(_, _, _, _, _)
\* for (let element of elements): into the fragment while it has no element
\* child, else into the last element placed.
chainFrom(h, frag, lowest, elements, i) ==
  IF i > Len(elements) THEN [h |-> h, threw |-> FALSE]
  ELSE LET element == elements[i]
           r == IF Len(h[frag].kids) = 0 THEN appendChild(h, frag, element)
                ELSE appendChild(h, lowest, element)
       IN IF r.threw THEN r ELSE chainFrom(r.h, frag, element, elements, i + 1)

\* Builder.chain(...elements)
chain(h, elements) ==
  LET frag == alloc(h)
      r == chainFrom([h EXCEPT ![frag] = createDocumentFragment], frag, 0, elements, 1)
  IN IF r.threw THEN [h |-> h, node |-> 0, threw |-> TRUE]
     ELSE [h |-> r.h, node |-> frag, threw |-> FALSE]

\* ------------------------------------------------------------------------
\* Builder.mod
\*
\* A string that is split is a sequence of characters; a class token is the
\* sequence of its characters.
\* ------------------------------------------------------------------------

RECURSIVE splitFrom(_, _, _, _)
splitFrom(str, i, token, tokens) ==
  IF i > Len(str) THEN Append(tokens, token)
  ELSE IF str[i] = " " THEN splitFrom(str, i + 1, <<>>, Append(tokens, token))
  ELSE splitFrom(str, i + 1, Append(token, str[i]), tokens)

\* str.split(" ")
split(str) == splitFrom(str, 1, <<>>, <<>>)

\* classList.toggle(token, force): an empty token throws SyntaxError; with
\* force given the token is added when force is truthy and removed when not;
\* without force it is removed when present and added when absent.
classListToggle(classes, token, forceGiven, force) ==
  IF token = <<>> THEN [classes |-> classes, threw |-> TRUE]
  ELSE IF forceGiven
    THEN [classes |-> IF force THEN classes \cup {token} ELSE classes \ {token},
          threw |-> FALSE]
  ELSE [classes |-> IF token \in classes THEN classes \ {token} ELSE classes \cup {token},
        threw |-> FALSE]

\* Builder.mod.class.toggle(node, classString):
\* node.classList.toggle(...toggles), so toggles[0] is the token and
\* toggles[1], when there is one, the force argument (a string: truthy when
\* not empty).
classToggle(h, node, classString) ==
  LET toggles == split(classString)
      r == classListToggle(h[node].classes, toggles[1], Len(toggles) >= 2,
                           Len(toggles) >= 2 /\ toggles[2] # <<>>)
  IN [h |-> [h EXCEPT ![node].classes = r.classes], node |-> 0, threw |-> r.threw]

\* Builder.mod.id.add(node, idString)
idAdd(h, node, idString) ==
  [h |-> setAttribute(h, node, "id", idString), node |-> 0, threw |-> FALSE]

\* The string whose characters are chars.
RECURSIVE text(_)
text(chars) == IF chars = <<>> THEN "" ELSE Head(chars) \o text(Tail(chars))

\* element.removeAttribute(name): takes one name; an attribute the element
\* does not have is not an error.
removeAttribute(h, e, name) ==
  [h EXCEPT ![e].attrs = {a \in @ : a[1] # name}]

\* Builder.mod.attribute.remove(node, attributeString):
\* node.removeAttribute(...attributes), so attributes[0] is the name and the
\* arguments after it are not read.
attributeRemove(h, node, attributeString) ==
  LET attributes == split(attributeString)
  IN [h |-> removeAttribute(h, node, text(attributes[1])), node |-> 0, threw |-> FALSE]

\* ------------------------------------------------------------------------
\* Builder: calls on a page that holds three pre-built elements
\* ------------------------------------------------------------------------

\* Number of Builder calls followed in one behaviour.
MaxBuilderCalls == 2

\* Largest count passed to multibuild.
MaxCopies == 2

\* The pre-built elements.
PreBuilt == {1, 2, 3}

\* Elements 1, 2 and 3: element 3 detached or the child of element 1, and
\* element 1 with the given classes.
Page(parentOf3, classes1) ==
  [n \in NodeIds |->
     IF n = 1 THEN [createElement("div") EXCEPT
                      !.classes = classes1,
                      !.kids = IF parentOf3 = 1 THEN <<3>> ELSE <<>>]
     ELSE IF n = 2 THEN createElement("span")
     ELSE IF n = 3 THEN [createElement("p") EXCEPT !.parent = parentOf3]
     ELSE Unused]

Pages == {Page(q, c) : q \in {0, 1}, c \in {{}, {<<"a">>}, {<<"a">>, <<"c">>}}}

\* Options maps passed to build and multibuild, as the entries in insertion
\* order.
BuildOptions ==
  { <<>>,
    <<Opt("id", "main"), Opt("title", "t")>>,
    <<Opt("id", "main"), Opt("toString", "x")>>,
    <<Opt("inner", "hello"), Opt("id", "main")>>,
    <<Children(<<2, 3>>)>>,
    <<Opt("inner", "hello"), Children(<<3, 2>>)>>,
    <<Children(<<2, 3>>), Opt("inner", "hello")>> }

MultiOptions ==
  { <<>>,
    <<Opt("id", "main")>>,
    <<Opt("inner", "hello"), Children(<<2>>)>> }

\* Sequences of distinct pre-built elements.
NodeSeqs ==
  {<<>>} \cup {<<x>> : x \in PreBuilt}
         \cup {<<p[1], p[2]>> : p \in {q \in PreBuilt \X PreBuilt : q[1] # q[2]}}
         \cup {<<1, 2, 3>>}

\* "a", "b", "a b", "c a", "a c b"
ClassStrings ==
  { <<"a">>, <<"b">>, <<"a", " ", "b">>, <<"c", " ", "a">>,
    <<"a", " ", "c", " ", "b">> }

Elements(h) == {n \in NodeIds : h[n].tag \notin {"", "#document-fragment"}}

\* The nodes a deep clone of the element built from options may take.
CloneSize(h, options) ==
  1 + Cardinality(UNION {UNION {Subtree(h, options[i].nodes[j]) :
                                  j \in 1..Len(options[i].nodes)} :
                           i \in 1..Len(options)})

NoArgs ==
  [op |-> "none", tag |-> "", num |-> 0, options |-> <<>>, xs |-> <<>>,
   form |-> "", node |-> 0, str |-> <<>>]

Called(c, r) ==
  /\ calls < MaxBuilderCalls
  /\ calls' = calls + 1
  /\ call' = c
  /\ heap' = r.h
  /\ ret' = [node |-> r.node, threw |-> r.threw]
  /\ UNCHANGED <<portfolioVars, themeVars, previewVars>>

Build(tag, options) ==
  /\ Cardinality(FreeIds(heap)) >= 1
  /\ Called([NoArgs EXCEPT !.op = "build", !.tag = tag, !.options = options],
            build(heap, tag, options))

Multibuild(tag, num, options) ==
  /\ Cardinality(FreeIds(heap)) >= 2 + num * CloneSize(heap, options)
  /\ Called([NoArgs EXCEPT !.op = "multibuild", !.tag = tag, !.num = num,
                           !.options = options],
            multibuild(heap, tag, num, options))

\* pack([x1, .., xn]) (form "array") or pack(x1, .., xn) (form "variadic").
Pack(form, xs) ==
  /\ Cardinality(FreeIds(heap)) >= 1
  /\ LET args == IF form = "array" THEN PackArray(xs) ELSE PackVariadic(xs)
     IN Called([NoArgs EXCEPT !.op = "pack", !.form = form, !.xs = xs],
               pack(heap, args.elementArr, args.elements))

Chain(xs) ==
  /\ Cardinality(FreeIds(heap)) >= 1
  /\ Called([NoArgs EXCEPT !.op = "chain", !.xs = xs], chain(heap, xs))

ClassToggle(node, classString) ==
  /\ node \in Elements(heap)
  /\ Called([NoArgs EXCEPT !.op = "class.toggle", !.node = node, !.str = classString],
            classToggle(heap, node, classString))

IdAdd(node, idString) ==
  /\ node \in Elements(heap)
  /\ Called([NoArgs EXCEPT !.op = "id.add", !.node = node, !.str = <<idString>>],
            idAdd(heap, node, idString))

\* "id", "title", "id title", "title id", "lang id"
AttributeStrings ==
  { <<"i", "d">>, <<"t", "i", "t", "l", "e">>,
    <<"i", "d", " ", "t", "i", "t", "l", "e">>,
    <<"t", "i", "t", "l", "e", " ", "i", "d">>,
    <<"l", "a", "n", "g", " ", "i", "d">> }

AttributeRemove(node, attributeString) ==
  /\ node \in Elements(heap)
  /\ Called([NoArgs EXCEPT !.op = "attribute.remove", !.node = node,
                           !.str = attributeString],
            attributeRemove(heap, node, attributeString))

BuilderInit ==
  /\ PortfolioIdle({Keys}, {TRUE}, {"./data/data.json"})
  /\ ThemeIdle
  /\ PreviewIdle
  /\ heap \in Pages
  /\ call = NoArgs
  /\ ret = [node |-> 0, threw |-> FALSE]
  /\ calls = 0

BuilderNext ==
  \/ \E options \in BuildOptions : Build("div", options)
  \/ \E num \in 0..MaxCopies : \E options \in MultiOptions : Multibuild("li", num, options)
  \/ \E form \in {"array", "variadic"} : \E xs \in NodeSeqs : Pack(form, xs)
  \/ \E xs \in NodeSeqs : Chain(xs)
  \/ \E classString \in ClassStrings : ClassToggle(1, classString)
  \/ \E node \in NodeIds : IdAdd(node, "x")
  \/ \E node \in NodeIds : \E attributeString \in AttributeStrings :
        AttributeRemove(node, attributeString)

BuilderSpec == BuilderInit /\ [][BuilderNext]_vars

\* ------------------------------------------------------------------------
\* Resume preview (javascript/main.js): buildRsSection builds, per resume
\* section, a button with id resume-preview-btn and a container with id
\* resume-preview-container, and asks for the click listener to be added
\* after the build; toggleResumePreview looks both up by id.
\* ------------------------------------------------------------------------

\* Largest number of resume sections in a document.
MaxResume == 2

\* Number of render passes followed in one behaviour.
MaxPasses == 2

\* Number of clicks followed in one behaviour.
MaxClicks == 3

\* What buildRsSection builds: the container with class hidden and no
\* child, the button reading "Preview", no listener on it yet.
Widget == [hidden |-> TRUE, iframes |-> 0, text |-> "Preview", listeners |-> 0]

\* toggleResumePreview: document.getElementById returns the first element
\* with the id in document order; without one the call returns.
toggleResumePreview(ws) ==
  IF ws = <<>> THEN ws
  ELSE IF ws[1].hidden
    THEN [ws EXCEPT ![1].iframes = 1, ![1].hidden = FALSE, ![1].text = "Hide Preview"]
    ELSE [ws EXCEPT ![1].hidden = TRUE, ![1].iframes = 0, ![1].text = "Preview"]

\* A click runs the listeners of the button in the order they were added.
RECURSIVE dispatchClick(_, _)
dispatchClick(ws, n) ==
  IF n = 0 THEN ws ELSE dispatchClick(toggleResumePreview(ws), n - 1)

\* A render pass over a document with n resume sections, into the cleared
\* content region: each buildRsSection appends its section and calls
\* addEventListenerAfterBuild, which sets a timer.
buildResume(n) ==
  /\ ~filled /\ passes < MaxPasses
  /\ preview' = [i \in 1..n |-> Widget]
  /\ timers' = timers + n
  /\ filled' = TRUE /\ passes' = passes + 1
  /\ UNCHANGED <<clicks, clicked, portfolioVars, themeVars, builderVars>>

\* The timer of addEventListenerAfterBuild fires: the listener goes to the
\* first element with id resume-preview-btn, if there is one.
listenerTimer ==
  /\ timers > 0
  /\ timers' = timers - 1
  /\ preview' = IF preview = <<>> THEN preview
                ELSE [preview EXCEPT ![1].listeners = @ + 1]
  /\ UNCHANGED <<filled, passes, clicks, clicked, portfolioVars, themeVars, builderVars>>

\* A click on the preview button of the i-th resume section.
clickPreview(i) ==
  /\ i \in 1..Len(preview) /\ clicks < MaxClicks
  /\ preview' = dispatchClick(preview, preview[i].listeners)
  /\ clicks' = clicks + 1 /\ clicked' = i
  /\ UNCHANGED <<timers, filled, passes, portfolioVars, themeVars, builderVars>>

\* refresh(): clearContent empties the content region.
clearPreview ==
  /\ filled
  /\ preview' = <<>> /\ filled' = FALSE
  /\ UNCHANGED <<timers, passes, clicks, clicked, portfolioVars, themeVars, builderVars>>

PreviewInit ==
  /\ PortfolioIdle({Keys}, {TRUE}, {"./data/data.json"})
  /\ ThemeIdle
  /\ BuilderIdle
  /\ PreviewIdle

PreviewNext ==
  \/ \E n \in 0..MaxResume : buildResume(n)
  \/ listenerTimer
  \/ \E i \in 1..MaxResume : clickPreview(i)
  \/ clearPreview

PreviewSpec == PreviewInit /\ [][PreviewNext]_vars

\* ------------------------------------------------------------------------
\* Properties
\* ------------------------------------------------------------------------

\* The nodes of container k that call p built.
NodesBy(p, k) == SelectSeq(cont[k], LAMBDA n : n.pass = p)

NoNodesBy(p) == \A k \in Keys : NodesBy(p, k) = <<>>

\* A fetch-and-render pass of p has started and has not settled.
InProgress(p) == pc[p] \in {"fetch", "json", "loaded", "rejected"}

\* The page and the controller as they were before any render.
PreRender == data = Null /\ dom = EmptyDom /\ \A k \in Keys : cont[k] = <<>>

\* The call has a fetch outstanding, or a document fetched and not yet rendered.
Rendering(p) == pc[p] \in {"fetch", "json", "loaded"}

\* C1: while one render pass is in progress, no init() or refresh() call
\* starts another one: at most one call at a time is between the start of
\* its fetch and the end of its render.
C1_SingleFlight == Cardinality({p \in Calls : Rendering(p)}) <= 1

\* C2: when a refresh() completes successfully, no other call being in
\* progress, every container holds only what that refresh built: no node of
\* an earlier pass remains.
C2_RefreshRebuildsAll ==
  [][\A p \in Calls :
       (/\ kind[p] = "refresh" /\ pc[p] = "loaded" /\ pc'[p] = "done"
        /\ \A q \in Calls \ {p} : ~InProgress(q))
         => \A k \in Keys : \A i \in 1..Len(cont'[k]) : cont'[k][i].pass = p]_vars

\* The documents C3 says are rejected.
C3_Invalid(d) ==
  \/ Len(d.sections) = 0
  \/ \E i \in 1..Len(d.sections) :
       LET s == d.sections[i]
       IN s.section = "" \/ s.title = "" \/ s.type = "" \/ s.type \notin {"pg", "ls", "rs"}

ValidationErrors == {"No sections found in data", "missing required fields", "invalid type"}

\* C3: a call whose fetched document has no sections, a section lacking
\* section, title or type, or a section of unknown type is rejected (it goes
\* on to fail, never to render), and no node of that call is in any container.
C3_InvalidDocumentRejected ==
  /\ [](\A p \in Calls :
          err[p] \in ValidationErrors
            => pc[p] \in {"rejected", "failed"} /\ NoNodesBy(p) /\ ran[p] = <<>>)
  /\ [][\A p \in Calls :
          (/\ pc[p] = "json" /\ pc'[p] # "json"
           /\ err'[p] # "invalid JSON"
           /\ C3_Invalid(data'))
            => /\ pc'[p] = "rejected"
               /\ err'[p] \in ValidationErrors
               /\ cont' = cont]_vars

C3_Witness ==
  \E p \in Calls :
    /\ pc[p] = "failed" /\ err[p] = "invalid type" /\ NoNodesBy(p)
    /\ \E q \in Calls : pc[q] = "failed" /\ err[q] = "missing required fields"

FetchErrors == {"HTTP error", "network error"}

\* C4: a call whose fetch fails (network rejection or a response that is not
\* ok) rejects and has added no node; when it is the only call made, the page
\* and the controller are left as before the render.
C4_FetchFailureAborts ==
  \A p \in Calls :
    err[p] \in FetchErrors
      => /\ pc[p] \in {"rejected", "failed"}
         /\ NoNodesBy(p) /\ ran[p] = <<>>
         /\ (pc[p] = "failed" /\ \A q \in Calls \ {p} : pc[q] = "idle") => PreRender

C4_Witness ==
  /\ pc[1] = "failed" /\ kind[1] = "init" /\ err[1] = "HTTP error"
  /\ \A q \in Calls \ {1} : pc[q] = "idle"
  /\ PreRender

\* C5: once ten seconds have passed with the document of a call not yet
\* loaded, the call does not go on with that document: when it leaves the
\* load it is failing, and it has added no node.
C5_TimeoutCancelsLoad ==
  \A p \in Calls :
    (overdue[p] /\ pc[p] # "json") => (pc[p] = "rejected" /\ NoNodesBy(p))

\* C6: buildSections appends to the content region, in document order, one
\* container for every section whose builder does not throw, and nothing for
\* a section whose builder throws.
C6_SectionErrorIsolated ==
  [][\A p \in Calls :
       (pc[p] = "loaded" /\ pc'[p] = "done")
         => LET built == SelectSeq(data.sections, LAMBDA s : buildSection(s, p).ok)
            IN cont'["content"] =
                 cont["content"] \o [i \in 1..Len(built) |-> sectionNode(built[i], p)]]_vars

C6_Witness ==
  \E p \in Calls :
    /\ pc[p] = "done"
    /\ rendered[p].sections = <<pgAbout, lsBroken, rsResume>>
    /\ [i \in 1..Len(NodesBy(p, "content")) |-> NodesBy(p, "content")[i].id]
         = <<"about-section", "resume-section">>

\* C7: when a build step of buildPage throws, all five steps have run, the
\* call completes without error, and the steps after the throwing one have
\* had their effect (the dev icons after throwing external links).
C7_StepErrorIsolated ==
  \A p \in Calls :
    threw[p] # {}
      => /\ pc[p] = "done"
         /\ ran[p] = buildSteps
         /\ ("external links" \in threw[p] /\ rendered[p].icons.languagesIsArray)
              => Len(NodesBy(p, "langIcons")) = Len(rendered[p].icons.languages)

C7_Witness ==
  \E p \in Calls :
    /\ pc[p] = "done"
    /\ "external links" \in threw[p]
    /\ Len(NodesBy(p, "langIcons")) > 0

\* A document that has the shape of the content schema: validated, and every
\* list section has an array body.
WellFormed(d) ==
  /\ d # Null
  /\ validateDataStructure(d) = ""
  /\ \A i \in 1..Len(d.sections) : d.sections[i].type = "ls" => d.sections[i].body = "list"

\* C8: after a successful init() on a valid document with sections s1..sn the
\* navigation list holds exactly n anchors, the i-th with href
\* "#<slug_i>-section" and text title_i, and the content region exactly n
\* containers, the i-th with id "<slug_i>-section" and title title_i.
C8_OneEntryPerSection ==
  [][\A p \in Calls :
       (kind[p] = "init" /\ pc[p] = "loaded" /\ pc'[p] = "done" /\ WellFormed(data))
         => LET s == data.sections
            IN /\ [i \in 1..Len(cont'["linklist"]) |->
                     <<cont'["linklist"][i].href, cont'["linklist"][i].text>>]
                    = [i \in 1..Len(s) |-> <<"#" \o s[i].section \o "-section", s[i].title>>]
               /\ [i \in 1..Len(cont'["content"]) |->
                     <<cont'["content"][i].id, cont'["content"][i].title>>]
                    = [i \in 1..Len(s) |-> <<s[i].section \o "-section", s[i].title>>]]_vars

DistinctSlugs(d) ==
  \A i, j \in 1..Len(d.sections) :
    i # j => d.sections[i].section # d.sections[j].section

\* C9: every document accepted by validation has pairwise distinct section
\* slugs.
C9_UniqueSlugs ==
  (data # Null /\ validateDataStructure(data) = "") => DistinctSlugs(data)

\* C10: on a host page without the navigation list or without the content
\* container, a call that gets as far as validateDOM fails there, no call
\* completes, and every container stays empty.
C10_MissingContainerFatal ==
  /\ []((\E k \in {"linklist", "content"} : k \notin present)
          => /\ \A k \in Keys : cont[k] = <<>>
             /\ \A p \in Calls : pc[p] # "done")
  /\ [][\A p \in Calls :
          (/\ \E k \in {"linklist", "content"} : k \notin present
           /\ pc[p] = "loaded" /\ pc'[p] # "loaded")
            => /\ pc'[p] = "failed"
               /\ err'[p] = "Required DOM elements missing"
               /\ data' = Null]_vars

C10_Witness ==
  \E p \in Calls :
    /\ "content" \notin present
    /\ pc[p] = "failed" /\ err[p] = "Required DOM elements missing"
    /\ \A k \in Keys : cont[k] = <<>>

\* The system preference changes and the listener gets the change event.
ChangeHeard == listening /\ prefersDark' # prefersDark

C12_InitialTheme ==
  [][(~themeUp /\ themeUp')
       => dataTheme' = IF saved \in {"light", "dark"} THEN saved
                       ELSE IF hasMatchMedia /\ prefersDark THEN "dark"
                       ELSE "light"]_vars

C12_Witness ==
  /\ themeUp /\ Len(events) = 1 /\ choice = "none"
  /\ dataTheme = "dark" /\ hasMatchMedia /\ ~prefersDark /\ heard = "none"

\* A step of toggleTheme.
ToggleStep ==
  /\ choice' = "toggle" /\ themeUp' = themeUp /\ prefersDark' = prefersDark
  /\ Len(events') = Len(events) + 1

C14_ResetFollowsSystem ==
  [][/\ (choice' = "reset" /\ Len(events') = Len(events) + 1)
          => dataTheme' = getSystemTheme
     /\ (choice = "reset" /\ ChangeHeard)
          => dataTheme' = IF prefersDark' THEN "dark" ELSE "light"]_vars

\* A Builder call of operation op is made in this step.
BuilderCall(op) == calls' = calls + 1 /\ call'.op = op

\* The set of the elements of a sequence.
Range(seq) == {seq[i] : i \in 1..Len(seq)}

\* C15: the attributes of the node returned by Builder.build are exactly the
\* entries of the options map other than inner and children, each with its
\* given value.
C15_AttributesAreOptions ==
  [][BuilderCall("build")
       => LET o == call'.options
          IN /\ ~ret'.threw
             /\ heap'[ret'.node].attrs =
                  {<<o[i].key, o[i].value>> :
                     i \in {j \in 1..Len(o) : o[j].key \notin {"inner", "children"}}}]_vars

\* The children entry of an options map, if it has one.
HasChildren(o) == \E i \in 1..Len(o) : o[i].key = "children"
ChildrenAt(o) == CHOOSE i \in 1..Len(o) : o[i].key = "children"

\* The node returned has the items as children, in their order, and no parent.
ItemsAreChildren(h, node, items) ==
  /\ SelectSeq(h[node].kids, LAMBDA k : k \in Range(items)) = items
  /\ \A k \in Range(items) : h[k].parent = node
  /\ h[node].parent = 0

\* C16 as claimed: for every options map with a children key, the node
\* returned by Builder.build has every item of the children sequence as a
\* child, in sequence order, and is itself attached to no parent.
C16_ChildrenAppended ==
  [][(BuilderCall("build") /\ HasChildren(call'.options))
       => LET o == call'.options
          IN ~ret'.threw /\ ItemsAreChildren(heap', ret'.node, o[ChildrenAt(o)].nodes)]_vars

\* C16 as amended: the same, for an options map whose children are distinct
\* nodes and in which no inner key comes after the children key (an inner
\* applied later replaces the content, the children with it).
C16_ChildrenAppendedUnlessReplaced ==
  [][(/\ BuilderCall("build") /\ HasChildren(call'.options)
      /\ LET o == call'.options
             items == o[ChildrenAt(o)].nodes
         IN /\ Cardinality(Range(items)) = Len(items)
            /\ \A i \in 1..Len(o) : o[i].key = "inner" => i < ChildrenAt(o))
       => LET o == call'.options
          IN ~ret'.threw /\ ItemsAreChildren(heap', ret'.node, o[ChildrenAt(o)].nodes)]_vars

C16_Witness ==
  /\ call.op = "build"
  /\ call.options = <<Opt("inner", "hello"), Children(<<3, 2>>)>>
  /\ ~ret.threw
  /\ heap[ret.node].kids = <<3, 2>> /\ heap[ret.node].inner = "hello"
  /\ heap[3].parent = ret.node /\ heap[1].kids = <<>>

RECURSIVE Shape(_, _)
\* What a node is made of, identities left out.
Shape(h, n) ==
  [tag |-> h[n].tag, attrs |-> h[n].attrs, classes |-> h[n].classes,
   inner |-> h[n].inner,
   kids |-> [i \in 1..Len(h[n].kids) |-> Shape(h, h[n].kids[i])]]

\* C17: Builder.multibuild(tag, N, options) returns a fragment with exactly N
\* top-level nodes, each of the shape of build(tag, options) and each made of
\* nodes of its own, none of which existed before; and setting an attribute
\* of one node of a fragment changes none of the other nodes in it.
C17_IndependentCopies ==
  [][/\ BuilderCall("multibuild")
          => LET frag == ret'.node
                 one == build(heap, call'.tag, call'.options)
                 copies == heap'[frag].kids
             IN /\ ~ret'.threw
                /\ heap'[frag].tag = "#document-fragment" /\ heap'[frag].parent = 0
                /\ Len(copies) = call'.num
                /\ \A i \in 1..Len(copies) :
                     /\ Shape(heap', copies[i]) = Shape(one.h, one.node)
                     /\ Subtree(heap', copies[i]) \subseteq FreeIds(heap)
                     /\ \A j \in 1..Len(copies) :
                          i # j => Subtree(heap', copies[i]) \cap Subtree(heap', copies[j]) = {}
     /\ BuilderCall("id.add")
          => \A n \in NodeIds \ {call'.node} :
               (heap[n].tag # "" /\ call'.node \notin Subtree(heap, n))
                 => Shape(heap', n) = Shape(heap, n)]_vars

C17_Witness ==
  /\ call.op = "id.add"
  /\ \E frag \in NodeIds :
       /\ heap[frag].tag = "#document-fragment"
       /\ Len(heap[frag].kids) = 2
       /\ call.node = heap[frag].kids[1]
       /\ heap[heap[frag].kids[1]].attrs = {<<"id", "x">>}
       /\ heap[heap[frag].kids[2]].attrs = {}
       /\ heap[heap[frag].kids[2]].tag = "li"

\* C18: Builder.chain(e1, .., en) on distinct nodes returns a fragment whose
\* only top-level node is e1, with each e(i+1) the only child of e(i); with
\* no items the fragment is empty, and chain(e1) adds no child to e1.
C18_ChainNests ==
  [][BuilderCall("chain")
       => LET xs == call'.xs
              frag == ret'.node
          IN /\ ~ret'.threw
             /\ heap'[frag].kids = IF Len(xs) = 0 THEN <<>> ELSE <<xs[1]>>
             /\ \A i \in 1..(Len(xs) - 1) : heap'[xs[i]].kids = <<xs[i + 1]>>
             /\ Len(xs) = 1 => heap'[xs[1]].kids = heap[xs[1]].kids]_vars

\* C19: Builder.pack([x1, .., xn]) and Builder.pack(x1, .., xn) on distinct
\* nodes both return a fragment whose top-level children are exactly
\* x1, .., xn in that order.
C19_PackFormsAgree ==
  [][BuilderCall("pack")
       => /\ ~ret'.threw
          /\ heap'[ret'.node].tag = "#document-fragment"
          /\ heap'[ret'.node].kids = call'.xs]_vars

\* C20: Builder.mod.class.toggle(node, "t1 .. tk") leaves each ti in the
\* class set of the node exactly when it was not there before, and every
\* other class as it was.
C20_ToggleEachToken ==
  [][BuilderCall("class.toggle")
       => LET tokens == Range(split(call'.str))
              before == heap[call'.node].classes
          IN /\ ~ret'.threw
             /\ heap'[call'.node].classes = (before \ tokens) \cup (tokens \ before)]_vars


\* C21: Builder.mod.attribute.remove(node, "a1 a2 .. ak") removes every
\* attribute named in the space-separated string from the node and leaves
\* every other attribute of the node as it was.
C21_RemovesEveryNamed ==
  [][BuilderCall("attribute.remove") =>
       LET node == call'.node
           names == {text(t) : t \in Range(split(call'.str))}
       IN heap'[node].attrs = {a \in heap[node].attrs : a[1] \notin names}]_vars


\* C22: when no theme preference was stored before ThemeController.init and
\* the user has made no manual choice since, a system preference change
\* event sets the active theme to the new system preference.
C22_FollowsSystemUntilChoice ==
  [][(themeUp /\ storedAtInit = "none" /\ choice = "none" /\ ChangeHeard)
       => dataTheme' = IF prefersDark' THEN "dark" ELSE "light"]_vars

\* C23: each click on the resume preview button flips the inline preview
\* between hidden and shown; in every state the preview container carries
\* the class hidden exactly when it holds no iframe, and the button reads
\* "Hide Preview" exactly when the preview is shown.
C23_ClickFlipsPreview ==
  /\ [](\A i \in 1..Len(preview) :
          /\ preview[i].hidden <=> preview[i].iframes = 0
          /\ preview[i].text = "Hide Preview" <=> ~preview[i].hidden)
  /\ [][clicks' = clicks + 1
          => preview'[clicked'].hidden # preview[clicked'].hidden]_vars


\* p is called as init() in this step.
InitCalled(p) == pc[p] = "idle" /\ pc'[p] # "idle" /\ kind'[p] = "init"

\* C24: init() called on a controller that is already initialized (its data
\* is not null) returns without fetching and leaves the loaded data, the DOM
\* cache and every container as they were.
C24_InitIdempotent ==
  [][\A p \in Calls :
       (InitCalled(p) /\ data # Null)
         => /\ pc'[p] = "returned"
            /\ timer' = timer
            /\ data' = data /\ dom' = dom /\ cont' = cont]_vars

C24_Witness ==
  \E p, q \in Calls :
    /\ pc[q] = "done" /\ rendered[q] = data
    /\ kind[p] = "init" /\ pc[p] = "returned"
    /\ cont["content"] # <<>>

\* C25: at every await or task boundary, in any interleaving of init() and
\* refresh() calls, the controller's data is null or a document that passes
\* validateDataStructure.
C25_DataNullOrValid == data = Null \/ validateDataStructure(data) = ""

\* C26: when an init() fails, the controller's data is null and its DOM
\* cache empty; an init() called while that is still so is not short-circuited
\* as already initialized and, the Builder and the data URL being there, goes
\* on to fetch.
C26_FailedInitResets ==
  [][\A p \in Calls :
       /\ (kind'[p] = "init" /\ pc[p] # "failed" /\ pc'[p] = "failed")
            => (data' = Null /\ dom' = EmptyDom)
       /\ (/\ InitCalled(p) /\ data = Null
           /\ \E q \in Calls : kind[q] = "init" /\ pc[q] = "failed")
            => /\ pc'[p] # "returned"
               /\ (builderLoaded /\ dataUrl # "") => pc'[p] = "fetch"]_vars

C26_Witness ==
  \E p, q \in Calls :
    /\ kind[p] = "init" /\ pc[p] = "failed" /\ err[p] = "invalid type"
    /\ kind[q] = "init" /\ pc[q] = "fetch" /\ p < q
    /\ data = Null /\ dom = EmptyDom

\* C27: when a render pass completes, each anchor it put in the navigation
\* list targets the id of a section container in the content region.
C27_NavTargetsExist ==
  [][\A p \in Calls :
       (pc[p] = "loaded" /\ pc'[p] = "done")
         => \A i \in 1..Len(cont'["linklist"]) :
              cont'["linklist"][i].pass = p
                => \E j \in 1..Len(cont'["content"]) :
                     cont'["linklist"][i].href = "#" \o cont'["content"][j].id]_vars


\* C28: once the ThemeController has acted (init, toggleTheme or
\* resetToSystemTheme, with system preference changes in between), the
\* data-theme attribute is light or dark and equals the stored preference.
C28_ThemeMatchesStore ==
  (themeUp \/ choice # "none") => (dataTheme \in themes /\ saved = dataTheme)

C28_Witness ==
  /\ themeUp /\ choice = "reset" /\ heard = "dark"
  /\ Len(events) = 2 /\ dataTheme = "light" /\ saved = "light"

\* C29: every themechange event dispatched by setTheme carries in
\* detail.theme the theme just set and in detail.previous the theme that was
\* active immediately before the call.
C29_EventCarriesPrevious ==
  [][Len(events') = Len(events) + 1
       => LET detail == events'[Len(events')]
          IN /\ detail.theme = dataTheme'
             /\ detail.previous = getCurrentTheme(ThemeState)]_vars

\* The fragment is returned and has no child.
EmptyFragment(r, h) ==
  ~r.threw /\ h[r.node].tag = "#document-fragment" /\ h[r.node].kids = <<>>

\* C30: Builder.pack given an empty sequence of nodes returns an empty
\* fragment without failing, as multibuild with count 0 and chain with no
\* items do.
C30_EmptyPack ==
  [][(\/ BuilderCall("pack") /\ call'.xs = <<>>
      \/ BuilderCall("chain") /\ call'.xs = <<>>
      \/ BuilderCall("multibuild") /\ call'.num = 0)
       => EmptyFragment(ret', heap')]_vars

====
